---- MODULE Spec2Model ----
(***************************************************************************)
(* Model of the RequiredLabel directive                                    *)
(* (projects/form-things/src/lib/directives/required-label.ts).            *)
(*                                                                         *)
(* The directive subscribes to the status stream of the form control bound *)
(* to its host element and, on every emission, reflects whether the        *)
(* control has a "required" validator into the DOM: an aria-required       *)
(* attribute on the host and an asterisk <span> appended to the labels     *)
(* associated with the host.                                               *)
(*                                                                         *)
(* The DOM is modelled as the browser implements it: a node has at most    *)
(* one parent, appendChild moves a node that is already attached.          *)
(***************************************************************************)
EXTENDS Integers, Sequences, FiniteSets

\* ---------------------------------------------------------------- bounds
NumLabels == 2      \* label elements that exist in the document
MaxNodes  == 2      \* indicator <span> nodes the directive may create in a run
MaxEmit   == 2      \* statusChanges emissions in a run
MaxDestroy == 2     \* calls of ngOnDestroy in a run

Labels == 1..NumLabels
NoNode == 0         \* asteriskSpan === null

\* What control.validator is, by what it returns for the synthetic input {}.
ValidatorKinds ==
  { "noValidator",      \* control.validator === null
    "returnsNull",      \* validator({}) === null : no error
    "returnsEmpty",     \* validator({}) === {}   : an empty mapping
    "otherKey",         \* validator({}) === {minlength: ...}
    "requiredTrue",     \* validator({}) === {required: true}   (Validators.required)
    "requiredFalsy" }   \* validator({}) === {required: false}  (a custom validator)

VARIABLES
  hasControl,     \* this.ngControl?.control is non-null
  devMode,        \* isDevMode()
  validator,      \* the control's current composed validator
  nativeLabels,   \* set of labels in hostElement.labels
  hostHasId,      \* hostElement.id is a non-empty string
  forLabels,      \* set of labels document.querySelectorAll('label[for="<id>"]') matches
                  \* (the two sets are independent: the host need not be a labelable
                  \* element, and the query also matches labels outside the host's tree)
  initialized,    \* ngOnInit has run
  status,         \* this.status$ : "undefined" | "open" | "closed"
  ariaRequired,   \* the host's aria-required attribute: "absent" | "true"
  asteriskSpan,   \* this.asteriskSpan : a node id, or NoNode
  created,        \* number of <span> nodes created so far (ids 1..created)
  children,       \* children[l] : the indicator nodes that are children of label l, in order
  threw,          \* an exception propagated out of a lifecycle hook or a callback
  \* ---- history (observation only; never read by the modelled code)
  nEmit,          \* statusChanges emissions so far
  nDestroy,       \* ngOnDestroy calls so far
  liveEmits,      \* ids of the emissions that happened while the subscription was open
  passLog,        \* ids of the emissions each updateLabel run handled (0 = startWith)
  lastIsRequired, \* isRequired computed by the most recent pass: "none" | "true" | "false"
  lastApplied,    \* isRequired of the most recent pass that got past the no-label return
  afterPass,      \* nothing has changed since the most recent pass ended
  everAssociated, \* labels found by some pass so far
  sawNoLabelPass  \* some pass so far found no label

dom  == <<ariaRequired, asteriskSpan, created, children>>
env  == <<hasControl, devMode, validator, nativeLabels, hostHasId, forLabels>>
vars == <<hasControl, devMode, validator, nativeLabels, hostHasId, forLabels,
          initialized, status, ariaRequired, asteriskSpan, created, children, threw,
          nEmit, nDestroy, liveEmits, passLog, lastIsRequired, lastApplied,
          afterPass, everAssociated, sawNoLabelPass>>

\* ---------------------------------------------------------------- DOM
\* Document order of a set of labels, as Array.from(NodeList) yields it.
RECURSIVE InDocumentOrder(_)
InDocumentOrder(S) ==
  IF S = {} THEN << >>
  ELSE LET first == CHOOSE l \in S : \A m \in S : l <= m
       IN  <<first>> \o InDocumentOrder(S \ {first})

Range(s) == { s[i] : i \in 1..Len(s) }

Without(s, n) == SelectSeq(s, LAMBDA x : x # n)

\* label.contains(node); contains(null) is false.
Contains(ch, l, n) == n # NoNode /\ n \in Range(ch[l])

\* appendChild in a DOM where a node may have several parents: no detach.
AppendChild_NoDetach(ch, l, n) ==
  [ m \in Labels |-> IF m = l THEN Without(ch[m], n) \o <<n>> ELSE ch[m] ]

\* Node.appendChild: the node is first removed from its current parent, then
\* appended as the last child of the new parent.
AppendChild(ch, l, n) ==
  [ m \in Labels |-> IF m = l THEN Without(ch[m], n) \o <<n>> ELSE Without(ch[m], n) ]

\* Node.removeChild (guarded by contains at the only call site).
RemoveChild(ch, l, n) ==
  [ m \in Labels |-> IF m = l THEN Without(ch[m], n) ELSE ch[m] ]

\* ---------------------------------------------------------------- validator
\* What control.validator({} as AbstractControl) returns: null, or a mapping from
\* error keys to details, kept here as pairs <<key, detail is truthy>>.
ValidatorResult(kind) ==
  CASE kind = "returnsNull"   -> [isNull |-> TRUE,  entries |-> {}]
    [] kind = "returnsEmpty"  -> [isNull |-> FALSE, entries |-> {}]
    [] kind = "otherKey"      -> [isNull |-> FALSE, entries |-> {<<"minlength", TRUE>>}]
    [] kind = "requiredTrue"  -> [isNull |-> FALSE, entries |-> {<<"required", TRUE>>}]
    [] kind = "requiredFalsy" -> [isNull |-> FALSE, entries |-> {<<"required", FALSE>>}]
    [] OTHER                  -> [isNull |-> TRUE,  entries |-> {}]

\* hasRequiredValidator testing for the key instead of the value: 'required' in validator
hasRequiredValidator_KeyPresence(control, kind) ==
  IF ~control \/ kind = "noValidator" THEN FALSE
  ELSE LET result == ValidatorResult(kind)
       IN  ~result.isNull /\ \E v \in BOOLEAN : <<"required", v>> \in result.entries

\* hasRequiredValidator(): !!(validator && validator['required'])
hasRequiredValidator(control, kind) ==
  IF ~control \/ kind = "noValidator" THEN FALSE
  ELSE LET result == ValidatorResult(kind)
       IN  ~result.isNull /\ <<"required", TRUE>> \in result.entries

\* ---------------------------------------------------------------- labels
\* findAssociatedLabels trying the label[for=id] query before the native labels.
findAssociatedLabels_IdFirst(native, hasId, byFor) ==
  IF hasId /\ byFor # {} THEN InDocumentOrder(byFor)
  ELSE IF native # {} THEN InDocumentOrder(native)
  ELSE << >>

\* findAssociatedLabels(element): the native labels when there are some, else the
\* label[for=id] query when the element has an id, else [].
findAssociatedLabels(native, hasId, byFor) ==
  IF native # {} THEN InDocumentOrder(native)
  ELSE IF hasId /\ byFor # {} THEN InDocumentOrder(byFor)
  ELSE << >>

\* ---------------------------------------------------------------- updateLabel
\* The part of the state updateLabel reads and writes.
DomState ==
  [aria |-> ariaRequired, span |-> asteriskSpan, created |-> created, children |-> children]

\* associatedLabels.forEach(label => { if (!label.contains(span)) appendChild(label, span) })
RECURSIVE AppendToEach(_, _, _)
AppendToEach(ch, labels, n) ==
  IF labels = << >> THEN ch
  ELSE LET l == Head(labels)
           next == IF ~Contains(ch, l, n) THEN AppendChild(ch, l, n) ELSE ch
       IN  AppendToEach(next, Tail(labels), n)

\* associatedLabels.forEach(label => { if (label.contains(span)) removeChild(label, span) })
RECURSIVE RemoveFromEach(_, _, _)
RemoveFromEach(ch, labels, n) ==
  IF labels = << >> THEN ch
  ELSE LET l == Head(labels)
           next == IF Contains(ch, l, n) THEN RemoveChild(ch, l, n) ELSE ch
       IN  RemoveFromEach(next, Tail(labels), n)

\* ApplyRequired without the `if (!this.asteriskSpan)` test: a new span every pass.
ApplyRequired_AlwaysCreates(d, labels) ==
  [aria     |-> "true",
   span     |-> d.created + 1,
   created  |-> d.created + 1,
   children |-> AppendToEach(d.children, labels, d.created + 1)]

\* The isRequired branch: set aria-required, create the span when none is held,
\* append it to every label that does not contain it.
ApplyRequired(d, labels) ==
  LET made == d.span = NoNode
      span == IF made THEN d.created + 1 ELSE d.span
  IN  [aria     |-> "true",
       span     |-> span,
       created  |-> IF made THEN d.created + 1 ELSE d.created,
       children |-> AppendToEach(d.children, labels, span)]

\* ApplyNotRequired that removes the span from the labels but keeps the reference.
ApplyNotRequired_KeepsReference(d, labels) ==
  [aria     |-> "absent",
   span     |-> d.span,
   created  |-> d.created,
   children |-> IF d.span # NoNode THEN RemoveFromEach(d.children, labels, d.span)
                ELSE d.children]

\* ApplyNotRequired with the removeAttribute call left out.
ApplyNotRequired_KeepsAria(d, labels) ==
  [aria     |-> d.aria,
   span     |-> NoNode,
   created  |-> d.created,
   children |-> IF d.span # NoNode THEN RemoveFromEach(d.children, labels, d.span)
                ELSE d.children]

\* The else branch: remove aria-required; when a span is held, remove it from
\* every label that contains it and drop the reference.
ApplyNotRequired(d, labels) ==
  [aria     |-> "absent",
   span     |-> NoNode,
   created  |-> d.created,
   children |-> IF d.span # NoNode THEN RemoveFromEach(d.children, labels, d.span)
                ELSE d.children]

\* The early return: no label found, in development mode.
SkipsPass(labels, dev) == Len(labels) = 0 /\ dev

\* updateLabel(), as a function of the state it starts in.
updateLabel(d, isRequired, labels, dev) ==
  IF SkipsPass(labels, dev) THEN d
  ELSE IF isRequired THEN ApplyRequired(d, labels)
  ELSE ApplyNotRequired(d, labels)

\* Whether a pass from the current state would create a <span>.
WouldCreate ==
  LET labels == findAssociatedLabels(nativeLabels, hostHasId, forLabels)
  IN  /\ ~SkipsPass(labels, devMode)
      /\ hasRequiredValidator(hasControl, validator)
      /\ asteriskSpan = NoNode

\* A boolean as the history variables record it.
Shown(b) == IF b THEN "true" ELSE "false"

\* One run of the subscriber callback () => this.updateLabel(), for emission `id`.
RunPass(id) ==
  LET isRequired == hasRequiredValidator(hasControl, validator)
      labels     == findAssociatedLabels(nativeLabels, hostHasId, forLabels)
      d          == updateLabel(DomState, isRequired, labels, devMode)
  IN  /\ ariaRequired' = d.aria
      /\ asteriskSpan' = d.span
      /\ created' = d.created
      /\ children' = d.children
      /\ passLog' = Append(passLog, id)
      /\ lastIsRequired' = Shown(isRequired)
      /\ lastApplied' = IF SkipsPass(labels, devMode) THEN lastApplied ELSE Shown(isRequired)
      /\ afterPass' = TRUE
      /\ everAssociated' = everAssociated \cup Range(labels)
      /\ sawNoLabelPass' = (sawNoLabelPass \/ labels = << >>)

\* ---------------------------------------------------------------- lifecycle
Init ==
  /\ hasControl \in BOOLEAN
  /\ devMode \in BOOLEAN
  /\ validator \in ValidatorKinds
  /\ nativeLabels \in SUBSET Labels
  /\ hostHasId \in BOOLEAN
  /\ forLabels \in SUBSET Labels
  /\ initialized = FALSE
  /\ status = "undefined"
  /\ ariaRequired = "absent"
  /\ asteriskSpan = NoNode
  /\ created = 0
  /\ children = [l \in Labels |-> << >>]
  /\ threw = FALSE
  /\ nEmit = 0
  /\ nDestroy = 0
  /\ liveEmits = << >>
  /\ passLog = << >>
  /\ lastIsRequired = "none"
  /\ lastApplied = "none"
  /\ afterPass = FALSE
  /\ everAssociated = {}
  /\ sawNoLabelPass = FALSE

\* ngOnInit without the early return: with no control, reading
\* this.ngControl.control.statusChanges raises a TypeError.
ngOnInit_Unguarded ==
  /\ ~initialized
  /\ nDestroy = 0
  /\ initialized' = TRUE
  /\ IF ~hasControl
     THEN /\ threw' = TRUE
          /\ UNCHANGED <<status, dom, passLog, lastIsRequired, lastApplied,
                         afterPass, everAssociated, sawNoLabelPass>>
     ELSE /\ WouldCreate => created < MaxNodes
          /\ status' = "open"
          /\ threw' = threw
          /\ RunPass(0)
  /\ UNCHANGED <<env, nEmit, nDestroy, liveEmits>>

\* ngOnInit subscribing to statusChanges without startWith: no pass at subscribe time.
ngOnInit_NoStartWith ==
  /\ ~initialized
  /\ nDestroy = 0
  /\ initialized' = TRUE
  /\ status' = IF hasControl THEN "open" ELSE status
  /\ UNCHANGED <<env, dom, threw, nEmit, nDestroy, liveEmits, passLog, lastIsRequired,
                 lastApplied, afterPass, everAssociated, sawNoLabelPass>>

\* ngOnInit(): return when there is no control; else subscribe to
\* statusChanges.pipe(startWith(status)), which runs the callback once at once.
ngOnInit ==
  /\ ~initialized
  /\ nDestroy = 0
  /\ initialized' = TRUE
  /\ IF ~hasControl
     THEN UNCHANGED <<status, dom, passLog, lastIsRequired, lastApplied,
                      afterPass, everAssociated, sawNoLabelPass>>
     ELSE /\ WouldCreate => created < MaxNodes
          /\ status' = "open"
          /\ RunPass(0)
  /\ UNCHANGED <<env, threw, nEmit, nDestroy, liveEmits>>

\* ngOnDestroy that forgets to unsubscribe.
ngOnDestroy_NoUnsubscribe ==
  /\ nDestroy < MaxDestroy
  /\ nDestroy' = nDestroy + 1
  /\ UNCHANGED <<env, initialized, status, dom, threw, nEmit, liveEmits, passLog,
                 lastIsRequired, lastApplied, afterPass, everAssociated, sawNoLabelPass>>

\* ngOnDestroy that also retracts what the directive put into the DOM.
ngOnDestroy_WithCleanup ==
  /\ nDestroy < MaxDestroy
  /\ nDestroy' = nDestroy + 1
  /\ status' = IF status = "undefined" THEN "undefined" ELSE "closed"
  /\ ariaRequired' = "absent"
  /\ children' = [l \in Labels |-> Without(children[l], asteriskSpan)]
  /\ asteriskSpan' = NoNode
  /\ UNCHANGED <<env, initialized, created, threw, nEmit, liveEmits, passLog,
                 lastIsRequired, lastApplied, afterPass, everAssociated, sawNoLabelPass>>

\* ngOnDestroy that also sets this.asteriskSpan = null.
ngOnDestroy_ReleasesSpan ==
  /\ nDestroy < MaxDestroy
  /\ nDestroy' = nDestroy + 1
  /\ status' = IF status = "undefined" THEN "undefined" ELSE "closed"
  /\ asteriskSpan' = NoNode
  /\ UNCHANGED <<env, initialized, ariaRequired, created, children, threw, nEmit,
                 liveEmits, passLog, lastIsRequired, lastApplied, afterPass,
                 everAssociated, sawNoLabelPass>>

\* ngOnDestroy(): this.status$?.unsubscribe()
ngOnDestroy ==
  /\ nDestroy < MaxDestroy
  /\ nDestroy' = nDestroy + 1
  /\ status' = IF status = "undefined" THEN "undefined" ELSE "closed"
  /\ UNCHANGED <<env, initialized, dom, threw, nEmit, liveEmits, passLog,
                 lastIsRequired, lastApplied, afterPass, everAssociated, sawNoLabelPass>>

\* The control's statusChanges emits; the callback runs when the subscription is open.
Emit ==
  /\ nEmit < MaxEmit
  /\ nEmit' = nEmit + 1
  /\ IF status = "open"
     THEN /\ WouldCreate => created < MaxNodes
          /\ liveEmits' = Append(liveEmits, nEmit + 1)
          /\ RunPass(nEmit + 1)
     ELSE UNCHANGED <<dom, liveEmits, passLog, lastIsRequired, lastApplied,
                      afterPass, everAssociated, sawNoLabelPass>>
  /\ UNCHANGED <<env, initialized, status, threw, nDestroy>>

\* ---------------------------------------------------------------- environment
\* What the environment's steps leave alone.
EnvFrame ==
  /\ afterPass' = FALSE
  /\ UNCHANGED <<hasControl, devMode, initialized, status, dom, threw, nEmit, nDestroy,
                 liveEmits, passLog, lastIsRequired, lastApplied, everAssociated,
                 sawNoLabelPass>>

\* The application replaces the control's validators (setValidators / clearValidators).
SetValidators ==
  /\ hasControl
  /\ \E v \in ValidatorKinds : v # validator /\ validator' = v
  /\ UNCHANGED <<nativeLabels, hostHasId, forLabels>>
  /\ EnvFrame

Toggle(S, l) == IF l \in S THEN S \ {l} ELSE S \cup {l}

\* The page moves a label into or out of the host's native association.
ChangeNativeLabels ==
  /\ \E l \in Labels : nativeLabels' = Toggle(nativeLabels, l)
  /\ UNCHANGED <<validator, hostHasId, forLabels>>
  /\ EnvFrame

\* The page changes a label's for attribute.
ChangeForLabels ==
  /\ \E l \in Labels : forLabels' = Toggle(forLabels, l)
  /\ UNCHANGED <<validator, nativeLabels, hostHasId>>
  /\ EnvFrame

\* The page sets or clears the host's id.
ChangeHostId ==
  /\ hostHasId' = ~hostHasId
  /\ UNCHANGED <<validator, nativeLabels, forLabels>>
  /\ EnvFrame

Next ==
  \/ ngOnInit
  \/ ngOnDestroy
  \/ Emit
  \/ SetValidators
  \/ ChangeNativeLabels
  \/ ChangeForLabels
  \/ ChangeHostId

Spec == Init /\ [][Next]_vars

\* ================================================================ claims
\* The labels a pass would find in the current state.
CurrentLabels == Range(findAssociatedLabels(nativeLabels, hostHasId, forLabels))

\* The indicator nodes that are children of label l.
IndicatorsIn(l) == Range(children[l])

\* The indicator nodes attached to some label.
AttachedNodes == UNION { IndicatorsIn(l) : l \in Labels }

\* ---------------------------------------------------------------- C1
\* C1 (as claimed): after the first pass, the host carries aria-required="true"
\* if and only if the isRequired computed by the most recent pass was true,
\* whatever labels the pass found and whatever the build mode.
C1_AriaMirrorsLastPass ==
  lastIsRequired # "none" => (ariaRequired = "true" <=> lastIsRequired = "true")

\* C1 (amended): the host carries aria-required="true" if and only if the most
\* recent pass that did not return early (a pass returns early when it finds no
\* label in development mode) computed isRequired true; before any such pass the
\* attribute is absent.
C1_AriaMirrorsLastAppliedPass ==
  /\ lastApplied = "none" => ariaRequired = "absent"
  /\ lastApplied # "none" => (ariaRequired = "true" <=> lastApplied = "true")

\* A pass that computed false returned early after a pass that applied true.
C1_Witness ==
  /\ devMode
  /\ afterPass
  /\ lastApplied = "true"
  /\ lastIsRequired = "false"
  /\ ariaRequired = "true"

\* ---------------------------------------------------------------- C2
\* C2: right after a pass with isRequired true, every associated label has
\* exactly one indicator node as a child, for any number of associated labels.
C2_OneIndicatorPerLabel ==
  (afterPass /\ lastIsRequired = "true") =>
    \A l \in CurrentLabels : Cardinality(IndicatorsIn(l)) = 1

\* ---------------------------------------------------------------- C3
\* C3: right after a pass with isRequired false, no label that any pass so far
\* found associated has an indicator node, and aria-required is absent.
C3_NothingLeftAfterFalse ==
  (afterPass /\ lastIsRequired = "false") =>
    /\ \A l \in everAssociated : IndicatorsIn(l) = {}
    /\ ariaRequired = "absent"

\* ---------------------------------------------------------------- C4
\* C4: between passes at most one indicator node is attached in the DOM, and it
\* is a child of every currently associated label or of none of them.
C4_AllOrNone ==
  passLog # << >> =>
    /\ Cardinality(AttachedNodes) <= 1
    /\ \A n \in AttachedNodes :
         \/ \A l \in CurrentLabels : n \in IndicatorsIn(l)
         \/ \A l \in CurrentLabels : n \notin IndicatorsIn(l)

\* ---------------------------------------------------------------- C5
\* C5: no label ever contains more than one indicator node, whatever the
\* emissions and the changes of the label set between passes.
C5_NoDuplicateIndicator ==
  \A l \in Labels : Cardinality(IndicatorsIn(l)) <= 1

\* ---------------------------------------------------------------- C6
\* C6: a pass that finds no associated label changes neither the host's
\* aria-required attribute, nor the indicator reference, nor any label's children,
\* in development and in production mode.
C6_NoLabelPassMutatesNothing ==
  [][ (passLog' # passLog /\ CurrentLabels = {}) =>
        UNCHANGED <<ariaRequired, asteriskSpan, children>> ]_vars

\* ---------------------------------------------------------------- C7
\* C7: with no bound control no subscription is ever created, no pass runs, the
\* host's attribute, the labels' children and the indicator reference keep their
\* initial values, and no error is raised, whatever emissions and teardowns follow.
C7_InertWithoutControl ==
  ~hasControl =>
    /\ status = "undefined"
    /\ passLog = << >>
    /\ ariaRequired = "absent"
    /\ asteriskSpan = NoNode
    /\ created = 0
    /\ \A l \in Labels : children[l] = << >>
    /\ ~threw

\* An inert directive that was initialized, saw emissions and was torn down.
C7_Witness ==
  /\ ~hasControl
  /\ initialized
  /\ nEmit > 0
  /\ nDestroy > 0

\* ---------------------------------------------------------------- C8
\* C8: once teardown has run, no step runs a pass or changes the host's
\* aria-required attribute, the labels' children or the indicator reference.
C8_TeardownStopsReflection ==
  [][ nDestroy > 0 => UNCHANGED <<passLog, ariaRequired, asteriskSpan, children>> ]_vars

\* A subscription that handled an emission was closed, and an emission followed.
C8_Witness ==
  /\ status = "closed"
  /\ liveEmits # << >>
  /\ nEmit > liveEmits[Len(liveEmits)]
  /\ ariaRequired = "true"

\* ---------------------------------------------------------------- C9
\* C9: with a bound control, initialization runs one pass (id 0) before any
\* emission is handled, and then exactly one pass per emission that happens while
\* subscribed, in emission order; before initialization no pass runs.
C9_OnePassPerEmission ==
  /\ ~initialized => passLog = << >>
  /\ (initialized /\ hasControl) => passLog = <<0>> \o liveEmits

\* The initial pass and two emissions were handled.
C9_Witness ==
  /\ status = "open"
  /\ Len(liveEmits) >= 2
  /\ Len(passLog) = Len(liveEmits) + 1

\* ---------------------------------------------------------------- C10
\* C10: every teardown call, whatever the state it is made in, raises no error and
\* leaves the host's aria-required attribute, the labels' children and the
\* indicator reference unchanged.
C10_TeardownTouchesOnlySubscription ==
  [][ nDestroy' # nDestroy =>
        (UNCHANGED <<ariaRequired, asteriskSpan, created, children>> /\ ~threw') ]_vars

\* Teardown ran twice while the host carried aria-required and a label an indicator.
C10_Witness ==
  /\ nDestroy >= 2
  /\ ~threw
  /\ ariaRequired = "true"
  /\ AttachedNodes # {}

\* ---------------------------------------------------------------- C11
\* C11: right after a pass that finds labels, when some earlier pass found none,
\* aria-required is present iff isRequired is true, every associated label carries
\* an indicator iff isRequired is true, and no exception was raised.
C11_RecoversAfterNoLabelPass ==
  (afterPass /\ sawNoLabelPass /\ CurrentLabels # {}) =>
    /\ ariaRequired = "true" <=> lastIsRequired = "true"
    /\ \A l \in CurrentLabels : IndicatorsIn(l) # {} <=> lastIsRequired = "true"
    /\ ~threw

\* ---------------------------------------------------------------- C12
\* The last associated label in iteration order.
LastLabel ==
  LET labels == findAssociatedLabels(nativeLabels, hostHasId, forLabels)
  IN  labels[Len(labels)]

C13_IndicatorLifecycle ==
  [][ /\ created' # created =>
           /\ passLog' # passLog
           /\ lastIsRequired' = "true"
           /\ asteriskSpan = NoNode
           /\ created' = created + 1
           /\ asteriskSpan' = created'
      /\ (passLog' # passLog /\ lastIsRequired' = "true" /\ asteriskSpan # NoNode) =>
           (asteriskSpan' = asteriskSpan /\ created' = created)
      /\ (passLog' # passLog /\ lastIsRequired' = "false" /\ CurrentLabels # {}) =>
           /\ asteriskSpan' = NoNode
           /\ \A l \in CurrentLabels : asteriskSpan \notin Range(children'[l])
    ]_vars

\* After true, false, true a second node, distinct from the first, is held.
C13_Witness ==
  /\ created = 2
  /\ asteriskSpan = 2
  /\ lastIsRequired = "true"

\* ---------------------------------------------------------------- C14
\* The mapping the validator returns holds the key, with whatever detail.
HasKey(kind, key) ==
  LET result == ValidatorResult(kind)
  IN  ~result.isNull /\ \E v \in BOOLEAN : <<key, v>> \in result.entries

\* C14 (as claimed): the isRequired a pass computes is true if and only if the
\* control has a validator whose result for the empty input contains a "required"
\* key, whatever is stored under it.
C14_RequiredIffKeyPresent ==
  afterPass =>
    (lastIsRequired = "true" <=> (validator # "noValidator" /\ HasKey(validator, "required")))

\* C14 (amended): the isRequired a pass computes is true if and only if the
\* validator's result holds a truthy value under "required"; it is false with no
\* validator, a null or empty result, a result without the key, and a result
\* whose "required" entry is falsy.
C14_RequiredIffTruthyRequired ==
  afterPass =>
    /\ validator = "requiredTrue" => lastIsRequired = "true"
    /\ validator \in {"noValidator", "returnsNull", "returnsEmpty", "otherKey",
                      "requiredFalsy"} => lastIsRequired = "false"

\* A pass ran on a validator that returns {required: false} and computed false.
C14_Witness ==
  /\ afterPass
  /\ validator = "requiredFalsy"
  /\ lastIsRequired = "false"
  /\ lastApplied = "false"

\* ---------------------------------------------------------------- C15
\* The label set the claim prescribes for the current state of the page.
ExpectedLabels ==
  IF nativeLabels # {} THEN nativeLabels
  ELSE IF hostHasId THEN forLabels
  ELSE {}

\* C15: every pass works on the label set of the page as it is when the pass runs:
\* the native labels when there are any, else the labels matching the host's
\* non-empty id, else none. Exactly those labels are recorded as found, no other
\* label gains a child, and a true pass leaves the held node in one of them.
C15_LookupPrecedence ==
  [][ passLog' # passLog =>
        /\ everAssociated' = everAssociated \cup ExpectedLabels
        /\ sawNoLabelPass' = (sawNoLabelPass \/ ExpectedLabels = {})
        /\ \A l \in Labels \ ExpectedLabels : Range(children'[l]) \subseteq Range(children[l])
        /\ (lastIsRequired' = "true" /\ ExpectedLabels # {}) =>
             \E l \in ExpectedLabels : asteriskSpan' \in Range(children'[l])
    ]_vars

\* A true pass ran while native and id-based labels both existed and differed,
\* after an earlier pass had found another label set.
C15_Witness ==
  /\ afterPass
  /\ lastIsRequired = "true"
  /\ nativeLabels # {}
  /\ hostHasId
  /\ forLabels \ nativeLabels # {}
  /\ everAssociated # nativeLabels
  /\ \E l \in nativeLabels : asteriskSpan \in IndicatorsIn(l)
  /\ \A l \in forLabels \ nativeLabels : asteriskSpan \notin IndicatorsIn(l)

\* ---------------------------------------------------------------- C16
\* C16 (as claimed): after teardown the component holds no indicator reference.
C16_TeardownReleasesIndicator ==
  nDestroy > 0 => asteriskSpan = NoNode

\* C16 (amended): teardown does not release the indicator reference: after
\* teardown the component holds a reference exactly when the last pass that was
\* not skipped computed isRequired true, and holds none otherwise.
C16_TeardownKeepsReference ==
  nDestroy > 0 => (asteriskSpan # NoNode <=> lastApplied = "true")

\* A directive torn down while required still holds its span.
C16_Witness ==
  /\ nDestroy > 0
  /\ status = "closed"
  /\ lastApplied = "true"
  /\ asteriskSpan # NoNode

\* ---------------------------------------------------------------- C17
\* C17: in every state the host carries aria-required if and only if the
\* component holds an indicator reference.
C17_AriaIffReferenceHeld ==
  ariaRequired = "true" <=> asteriskSpan # NoNode

\* Production mode, no label, after teardown: attribute set, span held, not attached.
C17_Witness ==
  /\ ~devMode
  /\ nDestroy > 0
  /\ CurrentLabels = {}
  /\ ariaRequired = "true"
  /\ asteriskSpan # NoNode
  /\ AttachedNodes = {}

\* ---------------------------------------------------------------- C18
\* C18: a pass that starts right after a pass, with nothing changed in between
\* (same validator, same labels), leaves the host's attribute, the indicator
\* reference, the set of created nodes and every label's children as they were.
C18_PassIsIdempotent ==
  [][ (afterPass /\ passLog' # passLog) =>
        UNCHANGED <<ariaRequired, asteriskSpan, created, children>> ]_vars

\* Repeated true passes over two labels.
C18_Witness ==
  /\ afterPass
  /\ Len(passLog) >= 3
  /\ lastIsRequired = "true"
  /\ Cardinality(CurrentLabels) >= 2
  /\ created = 1
  /\ asteriskSpan \in IndicatorsIn(LastLabel)

====
